---- MODULE Spec2Model ----
(***************************************************************************)
(* Incremental DBSCAN engine (RustIncDbscan): the object store with its    *)
(* neighbor graph, spatial index and label registry, and the insert and    *)
(* delete procedures with the multi-source split BFS.                      *)
(*                                                                         *)
(* Conventions of the model                                                *)
(*  - a coordinate vector is a tuple of integers (exactly representable    *)
(*    f64 values);                                                         *)
(*  - a HashMap is a function whose DOMAIN is its key set; a HashSet is a  *)
(*    set; iterating either visits its elements in an arbitrary order      *)
(*    (std's RandomState), so every such loop whose order can matter is    *)
(*    modelled over all permutations;                                      *)
(*  - petgraph's StableGraph is modelled by its node slots, its LIFO free  *)
(*    list of vacant slots and, per node, the list of outgoing and the     *)
(*    list of incoming edges, newest first: neighbors(v) walks the         *)
(*    outgoing list, then the incoming list. Node index k is slot k.       *)
(***************************************************************************)
EXTENDS Integers, Sequences, FiniteSets, TLC

VARIABLES
    graph,        \* Objects.graph: [nodes, free, out, inc]
    id_to_data,   \* Objects.id_to_data: ObjectId -> ObjectData
    id_to_node,   \* Objects.id_to_node: ObjectId -> NodeIdx
    spatial,      \* Objects.spatial: [coords, ids, dims, eps, p]
    labels,       \* Objects.labels: [label_to_objects, object_to_label]
    min_pts,      \* Objects.min_pts
    alloc_log,    \* history: every value get_next_cluster_label handed to set_labels
    ret,          \* what the last call returned: "unit" (insert), "true" / "false" (delete)
    ops,          \* number of calls made since the initial state
    copies,       \* history: the multiset the caller has built, coordinate ->
                  \* number of insert calls not yet undone by a delete call
    search        \* the frame of a search a call is running, step by step:
                  \* [kind |-> "none"] when no search is followed

vars == <<graph, id_to_data, id_to_node, spatial, labels, min_pts, alloc_log, ret, ops, copies, search>>

\* no search is followed
NoSearch == [kind |-> "none"]

----------------------------------------------------------------------------
(* Bounds of the exploration *)

MaxOps == 7

\* calls made on the engines of InitCorner, whose stores are larger
MaxCornerOps == 6

\* calls made on the engines of InitNew
MaxNewOps == 5

\* calls made on the spatial index alone
MaxIndexOps == 6

\* calls made on the label registry alone
MaxRegistryOps == 4

(* Program constants *)

CLUSTER_LABEL_UNCLASSIFIED == -2
CLUSTER_LABEL_NOISE == -1
CLUSTER_LABEL_FIRST_CLUSTER == 0

----------------------------------------------------------------------------
(* Generic helpers *)

EmptyMap == [x \in {} |-> 0]

SeqToSet(s) == {s[i] : i \in 1..Len(s)}

SetMax(S) == CHOOSE x \in S : \A y \in S : y <= x

Abs(x) == IF x < 0 THEN -x ELSE x

\* All orders in which a HashSet / HashMap of the elements S can be iterated.
Perms(S) ==
    {f \in [1..Cardinality(S) -> S] : \A i, j \in 1..Cardinality(S) : i # j => f[i] # f[j]}

MapRemove(m, k) == [x \in (DOMAIN m) \ {k} |-> m[x]]

MapPut(m, k, v) == [x \in (DOMAIN m) \cup {k} |-> IF x = k THEN v ELSE m[x]]

\* u32 arithmetic of a release build (wrapping).  A u32 value v is held as the
\* integer congruent to it modulo 2^32 that lies nearest to zero: v itself
\* below 2^31, v - 2^32 from there on (0 - 1 is held as -1 and stands for
\* 4294967295).  Sums and differences are then the integer ones; the order of
\* two values is the unsigned one.
AddU32(a, b) == a + b

SubU32(a, b) == a - b

LessU32(a, b) == IF (a < 0) = (b < 0) THEN a < b ELSE b < 0

GeqU32(a, b) == ~LessU32(a, b)

----------------------------------------------------------------------------
(* types.rs *)

\* xxh64(bytes, 0) >> 1: a deterministic, collision-free (on the inputs used)
\* map from the coordinate bytes to a non-negative integer.
RECURSIVE hash_coords(_)
hash_coords(coords) ==
    IF Len(coords) = 0 THEN 1
    ELSE hash_coords(SubSeq(coords, 1, Len(coords) - 1)) * 7 + coords[Len(coords)] + 3

----------------------------------------------------------------------------
(* distance.rs *)

RECURSIVE squared_euclidean_distance(_, _)
squared_euclidean_distance(a, b) ==
    IF Len(a) = 0 \/ Len(b) = 0 THEN 0
    ELSE (a[1] - b[1]) * (a[1] - b[1]) + squared_euclidean_distance(Tail(a), Tail(b))

RECURSIVE manhattan_distance(_, _)
manhattan_distance(a, b) ==
    IF Len(a) = 0 \/ Len(b) = 0 THEN 0
    ELSE Abs(a[1] - b[1]) + manhattan_distance(Tail(a), Tail(b))

RECURSIVE chebyshev_distance(_, _)
chebyshev_distance(a, b) ==
    IF Len(a) = 0 \/ Len(b) = 0 THEN 0
    ELSE LET d == Abs(a[1] - b[1])
             r == chebyshev_distance(Tail(a), Tail(b))
         IN IF d > r THEN d ELSE r

\* (sum of |a_i - b_i|^p)^(1/p).  On vectors of one coordinate, the only ones
\* it is applied to here, the two powers cancel and the value is |a_1 - b_1|
\* for every exponent p.
general_minkowski(a, b, p) ==
    IF Len(a) = 0 \/ Len(b) = 0 THEN 0 ELSE Abs(a[1] - b[1])

\* minkowski_distance for the exponents with an exact integer value here:
\* p = 1, p = infinity, and any other exponent on vectors of one coordinate.
\* The spatial index never passes p = 2: it compares the squared distance.
minkowski_distance(a, b, p) ==
    IF p = "1" THEN manhattan_distance(a, b)
    ELSE IF p = "inf" THEN chebyshev_distance(a, b)
    ELSE general_minkowski(a, b, p)

----------------------------------------------------------------------------
(* spatial_index.rs *)

SpatialIndex_new(eps, p) ==
    [coords |-> <<>>, ids |-> <<>>, dims |-> 0, eps |-> eps, p |-> p]

SpatialIndex_insert(sp, id, coords) ==
    [sp EXCEPT !.dims = IF Len(sp.ids) = 0 THEN Len(coords) ELSE @,
               !.coords = Append(@, coords),
               !.ids = Append(@, id)]

\* faulty variant: the identifiers are swap-removed, the coordinate blocks are
\* only truncated
SpatialIndex_delete_IdsOnly(sp, id) ==
    IF \E i \in 1..Len(sp.ids) : sp.ids[i] = id
    THEN LET pos == CHOOSE i \in 1..Len(sp.ids) :
                        sp.ids[i] = id /\ \A j \in 1..(i - 1) : sp.ids[j] # id
             last == Len(sp.ids)
             swappedIds == [sp.ids EXCEPT ![pos] = sp.ids[last], ![last] = sp.ids[pos]]
         IN [sp EXCEPT !.ids = SubSeq(swappedIds, 1, last - 1),
                       !.coords = SubSeq(sp.coords, 1, last - 1)]
    ELSE sp

\* swap-remove of the identifier and of its coordinate block
SpatialIndex_delete(sp, id) ==
    IF \E i \in 1..Len(sp.ids) : sp.ids[i] = id
    THEN LET pos == CHOOSE i \in 1..Len(sp.ids) :
                        sp.ids[i] = id /\ \A j \in 1..(i - 1) : sp.ids[j] # id
             last == Len(sp.ids)
             swappedIds == [sp.ids EXCEPT ![pos] = sp.ids[last], ![last] = sp.ids[pos]]
             swappedCoords == IF pos # last
                              THEN [sp.coords EXCEPT ![pos] = sp.coords[last],
                                                     ![last] = sp.coords[pos]]
                              ELSE sp.coords
         IN [sp EXCEPT !.ids = SubSeq(swappedIds, 1, last - 1),
                       !.coords = SubSeq(swappedCoords, 1, last - 1)]
    ELSE sp

Within(sp, query, point) ==
    IF sp.p = "2"
    THEN squared_euclidean_distance(query, point) <= sp.eps * sp.eps
    ELSE minkowski_distance(query, point, sp.p) <= sp.eps

RECURSIVE ScanFrom(_, _, _)
ScanFrom(sp, query, i) ==
    IF i > Len(sp.ids) THEN <<>>
    ELSE (IF Within(sp, query, sp.coords[i]) THEN <<sp.ids[i]>> ELSE <<>>)
         \o ScanFrom(sp, query, i + 1)

\* faulty variant: the scan runs from the last stored point to the first
RECURSIVE ScanBack(_, _, _)
ScanBack(sp, query, i) ==
    IF i < 1 THEN <<>>
    ELSE (IF Within(sp, query, sp.coords[i]) THEN <<sp.ids[i]>> ELSE <<>>)
         \o ScanBack(sp, query, i - 1)

query_radius_Backwards(sp, query) == ScanBack(sp, query, Len(sp.ids))

query_radius(sp, query) == ScanFrom(sp, query, 1)

----------------------------------------------------------------------------
(* labels.rs *)

LabelHandler_new == [label_to_objects |-> EmptyMap, object_to_label |-> EmptyMap]

\* faulty variant: the object stays in the set of its previous label
set_label_PreviousKept(lh, obj_id, label) ==
    LET l2o == lh.label_to_objects
        entry == IF label \in DOMAIN l2o THEN l2o[label] ELSE {}
    IN [label_to_objects |-> MapPut(l2o, label, entry \cup {obj_id}),
        object_to_label |-> MapPut(lh.object_to_label, obj_id, label)]

set_label(lh, obj_id, label) ==
    LET l2o == lh.label_to_objects
        o2l == lh.object_to_label
        removed == IF obj_id \in DOMAIN o2l /\ o2l[obj_id] \in DOMAIN l2o
                   THEN [l2o EXCEPT ![o2l[obj_id]] = @ \ {obj_id}]
                   ELSE l2o
        entry == IF label \in DOMAIN removed THEN removed[label] ELSE {}
    IN [label_to_objects |-> MapPut(removed, label, entry \cup {obj_id}),
        object_to_label |-> MapPut(o2l, obj_id, label)]

RECURSIVE set_labels(_, _, _)
set_labels(lh, obj_ids, label) ==
    IF Len(obj_ids) = 0 THEN lh
    ELSE set_labels(set_label(lh, Head(obj_ids), label), Tail(obj_ids), label)

set_label_of_inserted_object(lh, obj_id) ==
    LET l2o == lh.label_to_objects
        entry == IF CLUSTER_LABEL_UNCLASSIFIED \in DOMAIN l2o
                 THEN l2o[CLUSTER_LABEL_UNCLASSIFIED] ELSE {}
    IN [label_to_objects |-> MapPut(l2o, CLUSTER_LABEL_UNCLASSIFIED, entry \cup {obj_id}),
        object_to_label |-> MapPut(lh.object_to_label, obj_id, CLUSTER_LABEL_UNCLASSIFIED)]

delete_label_of_deleted_object(lh, obj_id) ==
    IF obj_id \in DOMAIN lh.object_to_label
    THEN LET label == lh.object_to_label[obj_id]
             l2o == lh.label_to_objects
         IN [label_to_objects |-> IF label \in DOMAIN l2o
                                  THEN [l2o EXCEPT ![label] = @ \ {obj_id}]
                                  ELSE l2o,
             object_to_label |-> MapRemove(lh.object_to_label, obj_id)]
    ELSE lh

\* Option<ClusterLabel> as a set: {label} for Some(label), {} for None
LabelHandler_get_label(lh, obj_id) ==
    IF obj_id \in DOMAIN lh.object_to_label THEN {lh.object_to_label[obj_id]} ELSE {}

\* faulty variant: the registry forgets a label with its last member, so the
\* next label is counted from the labels still carried
LabelHandler_get_next_cluster_label_Reusing(lh) ==
    LET carried == {l \in DOMAIN lh.label_to_objects : lh.label_to_objects[l] # {}}
    IN IF carried = {} THEN CLUSTER_LABEL_FIRST_CLUSTER ELSE SetMax(carried) + 1

\* the maximum over the KEYS of label_to_objects (a key outlives its last member)
LabelHandler_get_next_cluster_label(lh) ==
    IF DOMAIN lh.label_to_objects = {}
    THEN CLUSTER_LABEL_FIRST_CLUSTER
    ELSE SetMax(DOMAIN lh.label_to_objects) + 1

\* faulty variant: the set of change_from is copied, not moved
change_labels_SourceKept(lh, change_from, change_to) ==
    IF change_from = change_to THEN lh
    ELSE IF change_from \in DOMAIN lh.label_to_objects
    THEN LET affected == lh.label_to_objects[change_from]
             l2o == lh.label_to_objects
             entry == IF change_to \in DOMAIN l2o THEN l2o[change_to] ELSE {}
         IN [label_to_objects |-> MapPut(l2o, change_to, entry \cup affected),
             object_to_label |->
                 [x \in DOMAIN lh.object_to_label |->
                     IF x \in affected THEN change_to ELSE lh.object_to_label[x]]]
    ELSE lh

change_labels(lh, change_from, change_to) ==
    IF change_from = change_to THEN lh
    ELSE IF change_from \in DOMAIN lh.label_to_objects
    THEN LET affected == lh.label_to_objects[change_from]
             l2o == MapRemove(lh.label_to_objects, change_from)
             entry == IF change_to \in DOMAIN l2o THEN l2o[change_to] ELSE {}
         IN [label_to_objects |-> MapPut(l2o, change_to, entry \cup affected),
             object_to_label |->
                 [x \in DOMAIN lh.object_to_label |->
                     IF x \in affected THEN change_to ELSE lh.object_to_label[x]]]
    ELSE lh

----------------------------------------------------------------------------
(* petgraph::stable_graph::StableGraph<ObjectId, (), Undirected> as used by
   objects.rs.  nodes[k] is {weight} for an occupied slot and {} for a vacant
   one; free is the stack of vacant slots; out[k] / inc[k] list the targets of
   the edges added with k as first endpoint / the sources of the edges added
   with k as second endpoint, newest first. *)

StableGraph_default == [nodes |-> <<>>, free |-> <<>>, out |-> <<>>, inc |-> <<>>]

\* the index add_node will return
next_node_index(g) == IF Len(g.free) > 0 THEN Head(g.free) ELSE Len(g.nodes) + 1

add_node(g, weight) ==
    IF Len(g.free) > 0
    THEN [g EXCEPT !.nodes[Head(g.free)] = {weight}, !.free = Tail(g.free)]
    ELSE [g EXCEPT !.nodes = Append(@, {weight}),
                   !.out = Append(@, <<>>),
                   !.inc = Append(@, <<>>)]

\* faulty variant: the edge is entered at its first endpoint only
add_edge_OneWay(g, a, b) ==
    [g EXCEPT !.out[a] = <<b>> \o @]

add_edge(g, a, b) ==
    [g EXCEPT !.out[a] = <<b>> \o @, !.inc[b] = <<a>> \o @]

\* faulty variant: the edges of the vertex go, its weight stays in the slot
remove_node_WeightKept(g, a) ==
    LET keep(n) == n # a
    IN [nodes |-> g.nodes,
        free |-> <<a>> \o g.free,
        out |-> [k \in DOMAIN g.out |-> IF k = a THEN <<>> ELSE SelectSeq(g.out[k], keep)],
        inc |-> [k \in DOMAIN g.inc |-> IF k = a THEN <<>> ELSE SelectSeq(g.inc[k], keep)]]

remove_node(g, a) ==
    LET keep(n) == n # a
    IN [nodes |-> [g.nodes EXCEPT ![a] = {}],
        free |-> <<a>> \o g.free,
        out |-> [k \in DOMAIN g.out |-> IF k = a THEN <<>> ELSE SelectSeq(g.out[k], keep)],
        inc |-> [k \in DOMAIN g.inc |-> IF k = a THEN <<>> ELSE SelectSeq(g.inc[k], keep)]]

\* graph.neighbors(a): outgoing list, then incoming list
neighbors(g, a) == g.out[a] \o g.inc[a]

node_weight(g, a) == CHOOSE w \in g.nodes[a] : TRUE

contains_edge(g, a, b) == \E i \in 1..Len(neighbors(g, a)) : neighbors(g, a)[i] = b

----------------------------------------------------------------------------
(* object.rs *)

ObjectData_new(id, node_idx, mp) ==
    [id |-> id, node_idx |-> node_idx, count |-> 1, neighbor_count |-> 0, min_pts |-> mp]

ObjectData_is_core(d) == GeqU32(d.neighbor_count, d.min_pts)

----------------------------------------------------------------------------
(* objects.rs.  An Objects value is a record o with the fields graph,
   id_to_data, id_to_node, spatial, labels, min_pts; the model threads the
   history field alloc_log through the same record. *)

Objects_new(eps, mp, p) ==
    [graph |-> StableGraph_default,
     id_to_data |-> EmptyMap,
     id_to_node |-> EmptyMap,
     spatial |-> SpatialIndex_new(eps, p),
     labels |-> LabelHandler_new,
     min_pts |-> mp,
     alloc_log |-> <<>>]

get_object_id(o, coords) ==
    IF hash_coords(coords) \in DOMAIN o.id_to_data THEN {hash_coords(coords)} ELSE {}

\* the weights of graph.neighbors(node of obj_id), in iteration order
GraphNeighborIds(o, obj_id) ==
    IF obj_id \in DOMAIN o.id_to_node
    THEN LET ns == neighbors(o.graph, o.id_to_node[obj_id])
             ws == [i \in 1..Len(ns) |-> node_weight(o.graph, ns[i])]
             other(n) == n # obj_id
         IN SelectSeq(ws, other)
    ELSE <<>>

neighbor_ids_including_self(o, obj_id) == <<obj_id>> \o GraphNeighborIds(o, obj_id)

neighbor_ids(o, obj_id) == GraphNeighborIds(o, obj_id)

\* faulty variant: a duplicate insert raises the neighbor_count of the
\* object itself only, not of its graph neighbors
BumpNeighborCounts_SelfOnly(data, nids) ==
    IF Len(nids) = 0 THEN data
    ELSE [data EXCEPT ![Head(nids)].neighbor_count = AddU32(@, 1)]

RECURSIVE BumpNeighborCounts(_, _)
BumpNeighborCounts(data, nids) ==
    IF Len(nids) = 0 THEN data
    ELSE BumpNeighborCounts(
             [data EXCEPT ![Head(nids)].neighbor_count = AddU32(@, 1)], Tail(nids))

\* the loop over spatial_neighbors of a new object
RECURSIVE LinkSpatialNeighbors(_, _, _, _)
LinkSpatialNeighbors(o, object_id, node_idx, nids) ==
    IF Len(nids) = 0 THEN o
    ELSE LET nid == Head(nids)
             d1 == [o.id_to_data EXCEPT ![nid].neighbor_count = AddU32(@, 1)]
             o1 == IF nid # object_id
                   THEN [o EXCEPT
                           !.id_to_data =
                               [d1 EXCEPT ![object_id].neighbor_count =
                                              AddU32(@, d1[nid].count)],
                           !.graph = add_edge(@, node_idx, o.id_to_node[nid])]
                   ELSE [o EXCEPT !.id_to_data = d1]
         IN LinkSpatialNeighbors(o1, object_id, node_idx, Tail(nids))

insert_object(o, coords) ==
    LET object_id == hash_coords(coords)
    IN IF object_id \in DOMAIN o.id_to_data
       THEN LET d1 == [o.id_to_data EXCEPT ![object_id].count = AddU32(@, 1)]
                o1 == [o EXCEPT !.id_to_data = d1]
            IN [o1 EXCEPT !.id_to_data =
                    BumpNeighborCounts(d1, neighbor_ids_including_self(o1, object_id))]
       ELSE LET node_idx == next_node_index(o.graph)
                o1 == [o EXCEPT
                        !.graph = add_node(@, object_id),
                        !.id_to_data =
                            MapPut(@, object_id, ObjectData_new(object_id, node_idx, o.min_pts)),
                        !.id_to_node = MapPut(@, object_id, node_idx),
                        !.labels = set_label_of_inserted_object(@, object_id),
                        !.spatial = SpatialIndex_insert(@, object_id, coords)]
            IN LinkSpatialNeighbors(o1, object_id, node_idx,
                                    query_radius(o1.spatial, coords))

RECURSIVE DropNeighborCounts(_, _)
DropNeighborCounts(data, nids) ==
    IF Len(nids) = 0 THEN data
    ELSE DropNeighborCounts(
             IF Head(nids) \in DOMAIN data
             THEN [data EXCEPT ![Head(nids)].neighbor_count = SubU32(@, 1)]
             ELSE data,
             Tail(nids))

\* faulty variant: a fully removed object keeps its entry in the label registry
delete_object_LabelKept(o, obj_id) ==
    LET d1 == [o.id_to_data EXCEPT ![obj_id].count = SubU32(@, 1)]
        fully_removed == d1[obj_id].count = 0
        nbr_ids == neighbor_ids_including_self(o, obj_id)
        was_core == ObjectData_is_core(d1[obj_id])
        d2 == DropNeighborCounts(d1, nbr_ids)
        o2 == [o EXCEPT !.id_to_data = d2]
        o3 == IF fully_removed
              THEN [o2 EXCEPT
                      !.graph = remove_node(@, o.id_to_node[obj_id]),
                      !.id_to_node = MapRemove(@, obj_id),
                      !.id_to_data = MapRemove(@, obj_id),
                      !.spatial = SpatialIndex_delete(@, obj_id)]
              ELSE o2
    IN [objects |-> o3,
        info |-> [id |-> obj_id, neighbor_ids |-> nbr_ids,
                  was_core |-> was_core, fully_removed |-> fully_removed]]

\* returns [objects, info]: the store after the removal and the DeletedObjectInfo
delete_object(o, obj_id) ==
    LET d1 == [o.id_to_data EXCEPT ![obj_id].count = SubU32(@, 1)]
        fully_removed == d1[obj_id].count = 0
        nbr_ids == neighbor_ids_including_self(o, obj_id)
        was_core == ObjectData_is_core(d1[obj_id])
        d2 == DropNeighborCounts(d1, nbr_ids)
        o2 == [o EXCEPT !.id_to_data = d2]
        o3 == IF fully_removed
              THEN [o2 EXCEPT
                      !.graph = remove_node(@, o.id_to_node[obj_id]),
                      !.id_to_node = MapRemove(@, obj_id),
                      !.id_to_data = MapRemove(@, obj_id),
                      !.spatial = SpatialIndex_delete(@, obj_id),
                      !.labels = delete_label_of_deleted_object(@, obj_id)]
              ELSE o2
    IN [objects |-> o3,
        info |-> [id |-> obj_id, neighbor_ids |-> nbr_ids,
                  was_core |-> was_core, fully_removed |-> fully_removed]]

is_core(o, obj_id) ==
    IF obj_id \in DOMAIN o.id_to_data THEN ObjectData_is_core(o.id_to_data[obj_id]) ELSE FALSE

neighbor_count(o, obj_id) ==
    IF obj_id \in DOMAIN o.id_to_data THEN o.id_to_data[obj_id].neighbor_count ELSE 0

are_neighbors(o, id1, id2) ==
    IF id1 \in DOMAIN o.id_to_node /\ id2 \in DOMAIN o.id_to_node
    THEN contains_edge(o.graph, o.id_to_node[id1], o.id_to_node[id2])
    ELSE FALSE

get_label(o, obj_id) == LabelHandler_get_label(o.labels, obj_id)

get_next_cluster_label(o) == LabelHandler_get_next_cluster_label(o.labels)

\* the search of get_connected_components_within from one start: everything of
\* obj_ids reachable over graph edges between members of obj_ids
RECURSIVE ComponentWithin(_, _, _)
ComponentWithin(o, obj_ids, component) ==
    LET grown == component \cup
                 {nid \in obj_ids :
                     \E cur \in component : nid \in SeqToSet(GraphNeighborIds(o, cur))}
    IN IF grown = component THEN component ELSE ComponentWithin(o, obj_ids, grown)

\* The components found; the Vec the code returns lists them in the order in
\* which the iteration of the HashSet obj_ids meets their first member.
get_connected_components_within(o, obj_ids) ==
    IF Cardinality(obj_ids) <= 1 THEN {obj_ids}
    ELSE {ComponentWithin(o, obj_ids, {start}) : start \in obj_ids}

----------------------------------------------------------------------------
(* Helpers for loops whose iteration order cannot change their result *)

\* some listing of a set: used where the code collects a HashSet into a Vec
\* and then treats every element alike
RECURSIVE SetToSeq(_)
SetToSeq(S) ==
    IF S = {} THEN <<>>
    ELSE LET x == CHOOSE y \in S : TRUE IN <<x>> \o SetToSeq(S \ {x})

\* set_labels that also records a freshly allocated label in the history
AssignFresh(o, ids, next_label) ==
    [o EXCEPT !.labels = set_labels(@, ids, next_label),
              !.alloc_log = Append(@, next_label)]

----------------------------------------------------------------------------
(* inserter.rs *)

separate_core_neighbors_by_novelty(o, inserted_id) ==
    LET nbrs == SeqToSet(neighbor_ids_including_self(o, inserted_id))
        new0 == {nid \in nbrs : neighbor_count(o, nid) = o.min_pts}
        old0 == {nid \in nbrs : LessU32(o.min_pts, neighbor_count(o, nid))}
    IN IF inserted_id \in old0
       THEN [new_cores |-> new0 \cup {inserted_id}, old_cores |-> old0 \ {inserted_id}]
       ELSE [new_cores |-> new0, old_cores |-> old0]

get_update_seeds(o, new_cores) ==
    UNION {{nid \in SeqToSet(neighbor_ids_including_self(o, c)) :
                GeqU32(neighbor_count(o, nid), o.min_pts)} : c \in new_cores}

get_effective_cluster_labels(o, obj_ids) ==
    {l \in UNION {get_label(o, id) : id \in obj_ids} :
        l \notin {CLUSTER_LABEL_UNCLASSIFIED, CLUSTER_LABEL_NOISE}}

\* faulty variant: the members of the component are relabelled, the rest of
\* their clusters is not
ChangeAllLabels_Skipped(lh, from_labels, change_to) == lh

\* for &label in &effective_labels { change_labels(label, max_label) }: the
\* relabellings of distinct sources into one target commute
RECURSIVE ChangeAllLabels(_, _, _)
ChangeAllLabels(lh, from_labels, change_to) ==
    IF Len(from_labels) = 0 THEN lh
    ELSE ChangeAllLabels(change_labels(lh, Head(from_labels), change_to),
                         Tail(from_labels), change_to)

\* one pass of the loop over connected_components
ProcessComponent(o, component) ==
    LET effective_labels == get_effective_cluster_labels(o, component)
        ids == SetToSeq(component)
    IN IF effective_labels = {}
       THEN AssignFresh(o, ids, get_next_cluster_label(o))
       ELSE LET max_label == SetMax(effective_labels)
            IN [o EXCEPT !.labels =
                    ChangeAllLabels(set_labels(@, ids, max_label),
                                    SetToSeq(effective_labels), max_label)]

RECURSIVE ProcessComponents(_, _)
ProcessComponents(o, components) ==
    IF Len(components) = 0 THEN o
    ELSE ProcessComponents(ProcessComponent(o, Head(components)), Tail(components))

\* new_cores in the order the HashSet is iterated
RECURSIVE set_cluster_label_around_new_core_neighbors(_, _)
set_cluster_label_around_new_core_neighbors(o, new_cores) ==
    IF Len(new_cores) = 0 THEN o
    ELSE LET core_id == Head(new_cores)
             label == CHOOSE l \in get_label(o, core_id) : TRUE
             nbrs == neighbor_ids_including_self(o, core_id)
         IN set_cluster_label_around_new_core_neighbors(
                [o EXCEPT !.labels = set_labels(@, nbrs, label)], Tail(new_cores))

\* faulty variant: the inserted object keeps the label it was registered with
LabelWithoutNewCores_Unlabelled(o, inserted_id, old_cores) == o

\* faulty variant: the inserted object is made noise whatever surrounds it
LabelWithoutNewCores_AlwaysNoise(o, inserted_id, old_cores) ==
    [o EXCEPT !.labels = set_label(@, inserted_id, CLUSTER_LABEL_NOISE)]

\* Case A of insert: no new core
LabelWithoutNewCores(o, inserted_id, old_cores) ==
    IF old_cores # {}
    THEN LET found == UNION {get_label(o, id) : id \in old_cores}
             label_of_new_object == IF found = {} THEN CLUSTER_LABEL_NOISE ELSE SetMax(found)
         IN [o EXCEPT !.labels = set_label(@, inserted_id, label_of_new_object)]
    ELSE [o EXCEPT !.labels = set_label(@, inserted_id, CLUSTER_LABEL_NOISE)]

\* insert: the set of stores the call can end in, one for each iteration order
\* of update_seeds (the order of the components) and of new_cores
insert(o, coords) ==
    LET o1 == insert_object(o, coords)
        inserted_id == hash_coords(coords)
        sep == separate_core_neighbors_by_novelty(o1, inserted_id)
    IN IF sep.new_cores = {}
       THEN {LabelWithoutNewCores(o1, inserted_id, sep.old_cores)}
       ELSE LET update_seeds == get_update_seeds(o1, sep.new_cores)
                connected_components == get_connected_components_within(o1, update_seeds)
            IN {set_cluster_label_around_new_core_neighbors(
                    ProcessComponents(o1, comp_order), core_order) :
                   comp_order \in Perms(connected_components),
                   core_order \in Perms(sep.new_cores)}

----------------------------------------------------------------------------
(* bfs_split.rs.  The traversal state st is [queue, node_to_seed,
   seed_to_component]; seeds are node indices, components hold ObjectIds. *)

AddToComponent(s2c, seed, id) ==
    MapPut(s2c, seed, (IF seed \in DOMAIN s2c THEN s2c[seed] ELSE {}) \cup {id})

\* faulty variant: a tree edge queues its target without giving it a seed in
\* node_to_seed, so the target still counts as new to the next vertex
RelaxEdge_SeedNotRecorded(o, st, v_idx, neighbor_idx) ==
    LET n_id == node_weight(o.graph, neighbor_idx)
    IN IF neighbor_idx \notin DOMAIN st.node_to_seed
       THEN [queue |-> Append(st.queue, neighbor_idx),
             node_to_seed |-> st.node_to_seed,
             seed_to_component |->
                 AddToComponent(st.seed_to_component, st.node_to_seed[v_idx], n_id)]
       ELSE [queue |-> st.queue,
             node_to_seed |-> st.node_to_seed,
             seed_to_component |->
                 AddToComponent(st.seed_to_component, st.node_to_seed[neighbor_idx], n_id)]

\* one pass of "for neighbor_idx in objects.graph.neighbors(v_idx)"
RelaxEdge(o, st, v_idx, neighbor_idx) ==
    LET n_id == node_weight(o.graph, neighbor_idx)
    IN IF neighbor_idx \notin DOMAIN st.node_to_seed
       THEN \* tree edge
            LET source_seed == st.node_to_seed[v_idx]
            IN [queue |-> Append(st.queue, neighbor_idx),
                node_to_seed |-> MapPut(st.node_to_seed, neighbor_idx, source_seed),
                seed_to_component |-> AddToComponent(st.seed_to_component, source_seed, n_id)]
       ELSE \* non-tree edge
            LET source_seed == st.node_to_seed[v_idx]
                target_seed == st.node_to_seed[neighbor_idx]
                n2s == IF source_seed # target_seed /\ is_core(o, n_id)
                       THEN IF source_seed > target_seed
                            THEN MapPut(st.node_to_seed, neighbor_idx, source_seed)
                            ELSE MapPut(st.node_to_seed, v_idx, target_seed)
                       ELSE st.node_to_seed
            IN [queue |-> st.queue,
                node_to_seed |-> n2s,
                seed_to_component |->
                    AddToComponent(st.seed_to_component, n2s[neighbor_idx], n_id)]

RECURSIVE ExpandNeighbors(_, _, _, _)
ExpandNeighbors(o, st, v_idx, nbrs) ==
    IF Len(nbrs) = 0 THEN st
    ELSE ExpandNeighbors(o, RelaxEdge(o, st, v_idx, Head(nbrs)), v_idx, Tail(nbrs))

\* one pass of "while let Some(v_idx) = queue.pop_front()", the queue not empty
SplitPop(o, st) ==
    LET v_idx == Head(st.queue)
        v_id == node_weight(o.graph, v_idx)
        popped == [st EXCEPT !.queue = Tail(@)]
        discovered ==
            IF v_idx \notin DOMAIN popped.node_to_seed
            THEN [popped EXCEPT
                     !.node_to_seed = MapPut(@, v_idx, v_idx),
                     !.seed_to_component = AddToComponent(@, v_idx, v_id)]
            ELSE popped
    IN IF ~is_core(o, v_id)
       THEN discovered
       ELSE ExpandNeighbors(o, discovered, v_idx, neighbors(o.graph, v_idx))

\* while let Some(v_idx) = queue.pop_front()
RECURSIVE SplitBfs(_, _)
SplitBfs(o, st) ==
    IF Len(st.queue) = 0 THEN st ELSE SplitBfs(o, SplitPop(o, st))

\* the traversal state before the first pass of the while loop: the queue
\* holds the node of every seed the store knows, in the order of seed_ids
SplitSeeded(o, seed_ids) ==
    LET present(id) == id \in DOMAIN o.id_to_node
        known == SelectSeq(seed_ids, present)
    IN [queue |-> [i \in 1..Len(known) |-> o.id_to_node[known[i]]],
        node_to_seed |-> EmptyMap,
        seed_to_component |-> EmptyMap]

\* seed_to_component when the queue has emptied
SplitTraversal(o, seed_ids) == SplitBfs(o, SplitSeeded(o, seed_ids))

\* The Vecs find_split_components can return: the components of every seed but
\* largest_seed, in the iteration order of the HashMap seed_to_component.
\* largest_seed is the first entry of maximal size that the iteration meets.
find_split_components(o, seed_ids) ==
    IF Len(seed_ids) <= 1 THEN {<<>>}
    ELSE LET s2c == SplitTraversal(o, seed_ids).seed_to_component
             largest_size == SetMax({Cardinality(s2c[s]) : s \in DOMAIN s2c} \cup {0})
         IN IF DOMAIN s2c = {} THEN {<<>>}
            ELSE {[i \in 1..Len(order) |-> s2c[order[i]]] :
                     order \in UNION {Perms((DOMAIN s2c) \ {largest_seed}) :
                         largest_seed \in {s \in DOMAIN s2c :
                                              Cardinality(s2c[s]) = largest_size}}}

----------------------------------------------------------------------------
(* deleter.rs *)

\* faulty variant: the deleted object is never listed
get_objects_that_lost_core_property_NeighborsOnly(o, deleted_info) ==
    LET lost(nid) == /\ nid # deleted_info.id
                     /\ nid \in DOMAIN o.id_to_data
                     /\ o.id_to_data[nid].neighbor_count = SubU32(o.min_pts, 1)
    IN SelectSeq(deleted_info.neighbor_ids, lost)

get_objects_that_lost_core_property(o, deleted_info) ==
    LET lost(nid) == /\ nid # deleted_info.id
                     /\ nid \in DOMAIN o.id_to_data
                     /\ o.id_to_data[nid].neighbor_count = SubU32(o.min_pts, 1)
    IN SelectSeq(deleted_info.neighbor_ids, lost)
       \o (IF deleted_info.was_core THEN <<deleted_info.id>> ELSE <<>>)

\* the closed neighborhood get_update_seeds_and_non_core_neighbors_of_ex_cores
\* walks for one ex-core
ExCoreNeighborhood(o, ex_core_id, deleted_info) ==
    IF ex_core_id = deleted_info.id /\ deleted_info.fully_removed
    THEN SeqToSet(deleted_info.neighbor_ids)
    ELSE IF ex_core_id \in DOMAIN o.id_to_data
    THEN SeqToSet(neighbor_ids_including_self(o, ex_core_id))
    ELSE {}

get_update_seeds_and_non_core_neighbors_of_ex_cores(o, ex_cores, deleted_info) ==
    LET around == UNION {ExCoreNeighborhood(o, e, deleted_info) : e \in SeqToSet(ex_cores)}
        live == {nid \in around : nid \in DOMAIN o.id_to_data}
        seeds == {nid \in live : ObjectData_is_core(o.id_to_data[nid])}
        others == {nid \in live : ~ObjectData_is_core(o.id_to_data[nid])}
    IN IF deleted_info.fully_removed
       THEN [update_seeds |-> seeds \ {deleted_info.id},
             non_core_neighbors |-> others \ {deleted_info.id}]
       ELSE [update_seeds |-> seeds, non_core_neighbors |-> others]

\* obj_ids in the order the HashSet is iterated; each group keeps that order
group_objects_by_cluster(o, obj_ids) ==
    LET labelled == UNION {get_label(o, obj_ids[i]) : i \in 1..Len(obj_ids)}
    IN [l \in labelled |->
           LET has(id) == get_label(o, id) = {l} IN SelectSeq(obj_ids, has)]

objects_are_neighbors_of_each_other(o, obj_ids) ==
    \A i \in 1..Len(obj_ids) : \A j \in (i + 1)..Len(obj_ids) :
        are_neighbors(o, obj_ids[i], obj_ids[j])

find_components_to_split_away(o, seed_objects) ==
    IF Len(seed_objects) <= 1 THEN {<<>>}
    ELSE IF objects_are_neighbors_of_each_other(o, seed_objects) THEN {<<>>}
    ELSE find_split_components(o, seed_objects)

\* for component in components { next_label; set_labels }
RECURSIVE RelabelComponents(_, _)
RelabelComponents(o, components) ==
    IF Len(components) = 0 THEN o
    ELSE RelabelComponents(
             AssignFresh(o, SetToSeq(Head(components)), get_next_cluster_label(o)),
             Tail(components))

\* for (_label, seeds) in &update_seeds_by_cluster: the stores the loop can
\* end in, groups being the seed lists in the iteration order of the HashMap
RECURSIVE SplitGroups(_, _)
SplitGroups(o, groups) ==
    IF Len(groups) = 0 THEN {o}
    ELSE UNION {SplitGroups(RelabelComponents(o, components), Tail(groups)) :
                   components \in find_components_to_split_away(o, Head(groups))}

\* the label set_each_border_object_labels_to_largest_around computes for one object
LargestLabelAround(o, obj_id) ==
    LET nbrs == SeqToSet(neighbor_ids_including_self(o, obj_id))
        found == UNION {get_label(o, nid) : nid \in {n \in nbrs : is_core(o, n)}}
    IN IF found = {} THEN CLUSTER_LABEL_NOISE ELSE SetMax(found)

\* the updates are all computed on the store as it is, then applied
RECURSIVE ApplyLabelUpdates(_, _, _)
ApplyLabelUpdates(lh, ids, label_of) ==
    IF Len(ids) = 0 THEN lh
    ELSE ApplyLabelUpdates(set_label(lh, Head(ids), label_of[Head(ids)]), Tail(ids), label_of)

\* faulty variant: the non-core neighbors of the ex-cores keep their labels
set_each_border_object_labels_to_largest_around_Skipped(o, objects_to_set) == o

set_each_border_object_labels_to_largest_around(o, objects_to_set) ==
    LET updates == [obj_id \in objects_to_set |-> LargestLabelAround(o, obj_id)]
    IN [o EXCEPT !.labels = ApplyLabelUpdates(@, SetToSeq(objects_to_set), updates)]

\* delete of an object that is present: the set of stores the call can end in
DeletePresent(o, obj_id) ==
    LET r == delete_object(o, obj_id)
        o1 == r.objects
        ex_cores == get_objects_that_lost_core_property(o1, r.info)
        sn == get_update_seeds_and_non_core_neighbors_of_ex_cores(o1, ex_cores, r.info)
        after_split ==
            IF sn.update_seeds # {}
            THEN UNION {
                    LET by_cluster == group_objects_by_cluster(o1, seed_order)
                    IN UNION {SplitGroups(o1, [i \in 1..Len(group_order) |->
                                                  by_cluster[group_order[i]]]) :
                                 group_order \in Perms(DOMAIN by_cluster)} :
                    seed_order \in Perms(sn.update_seeds)}
            ELSE {o1}
    IN {set_each_border_object_labels_to_largest_around(o2, sn.non_core_neighbors) :
           o2 \in after_split}

\* faulty variant: an unknown identifier is reported as deleted
delete_AlwaysTrue(o, obj_id) ==
    IF obj_id \notin DOMAIN o.id_to_data
    THEN {[objects |-> o, found |-> TRUE]}
    ELSE {[objects |-> o2, found |-> TRUE] : o2 \in DeletePresent(o, obj_id)}

\* delete: [objects, found] for every way the call can end
delete(o, obj_id) ==
    IF obj_id \notin DOMAIN o.id_to_data
    THEN {[objects |-> o, found |-> FALSE]}
    ELSE {[objects |-> o2, found |-> TRUE] : o2 \in DeletePresent(o, obj_id)}

----------------------------------------------------------------------------
(* engine.rs: the calls of IncrementalDbscan on the state variables *)

Objects ==
    [graph |-> graph, id_to_data |-> id_to_data, id_to_node |-> id_to_node,
     spatial |-> spatial, labels |-> labels, min_pts |-> min_pts,
     alloc_log |-> alloc_log]

Becomes(o) ==
    /\ graph' = o.graph
    /\ id_to_data' = o.id_to_data
    /\ id_to_node' = o.id_to_node
    /\ spatial' = o.spatial
    /\ labels' = o.labels
    /\ min_pts' = o.min_pts
    /\ alloc_log' = o.alloc_log

IncrementalDbscan_new(eps, mp, p) ==
    /\ graph = Objects_new(eps, mp, p).graph
    /\ id_to_data = Objects_new(eps, mp, p).id_to_data
    /\ id_to_node = Objects_new(eps, mp, p).id_to_node
    /\ spatial = Objects_new(eps, mp, p).spatial
    /\ labels = Objects_new(eps, mp, p).labels
    /\ min_pts = Objects_new(eps, mp, p).min_pts
    /\ alloc_log = Objects_new(eps, mp, p).alloc_log
    /\ ret = "unit"
    /\ ops = 0
    /\ copies = EmptyMap
    /\ search = NoSearch

\* faulty variant: a coordinate the engine does not hold is answered as noise
IncrementalDbscan_get_label_NoiseWhenAbsent(coords) ==
    IF get_object_id(Objects, coords) = {}
    THEN {CLUSTER_LABEL_NOISE}
    ELSE UNION {get_label(Objects, id) : id \in get_object_id(Objects, coords)}

IncrementalDbscan_get_label(coords) ==
    UNION {get_label(Objects, id) : id \in get_object_id(Objects, coords)}

\* the caller's multiset with one more copy of coords
OneMore(held, coords) ==
    MapPut(held, coords, (IF coords \in DOMAIN held THEN held[coords] ELSE 0) + 1)

\* the caller's multiset with one copy of coords less, if it holds one
OneLess(held, coords) ==
    IF coords \notin DOMAIN held THEN held
    ELSE IF held[coords] = 1 THEN MapRemove(held, coords)
    ELSE MapPut(held, coords, held[coords] - 1)

Insert(coords) ==
    /\ ops < MaxOps
    /\ \E o \in insert(Objects, coords) : Becomes(o)
    /\ ret' = "unit"
    /\ ops' = ops + 1
    /\ copies' = OneMore(copies, coords)
    /\ UNCHANGED search

Delete(coords) ==
    /\ ops < MaxOps
    /\ \E r \in delete(Objects, hash_coords(coords)) :
          /\ Becomes(r.objects)
          /\ ret' = (IF r.found THEN "true" ELSE "false")
    /\ ops' = ops + 1
    /\ copies' = OneLess(copies, coords)
    /\ UNCHANGED search

----------------------------------------------------------------------------
(* The callers: coordinates the calls are made with, and the engines built *)

\* the corners of a unit square: under p = 1, eps = 1 a 4-cycle
Square == {<<0, 0>>, <<1, 0>>, <<1, 1>>, <<0, 1>>}

\* five points on a line at unit distance
Line == {<<0>>, <<1>>, <<2>>, <<3>>, <<4>>}

\* the unit square with a tail at one corner
SquareWithTail == Square \cup {<<2, 0>>}

Init == \E mp \in {1, 2, 3} : IncrementalDbscan_new(1, mp, "1")

Next == \E coords \in Square : Insert(coords) \/ Delete(coords)

Spec == Init /\ [][Next]_vars

InitLine == IncrementalDbscan_new(1, 4, "1")

NextLine == \E coords \in Line : Insert(coords) \/ Delete(coords)

SpecLine == InitLine /\ [][NextLine]_vars

InitTail == IncrementalDbscan_new(1, 2, "1")

NextTail == \E coords \in SquareWithTail : Insert(coords) \/ Delete(coords)

SpecTail == InitTail /\ [][NextTail]_vars

\* the exponents below 1 that callers try
BelowOne == {"0.5"}

\* PyErr::new::<PyValueError, _>(msg): the constructor call fails and there is
\* no engine; the variables of the engine hold no store
PyValueError(msg) ==
    /\ graph = "none"
    /\ id_to_data = "none"
    /\ id_to_node = "none"
    /\ spatial = "none"
    /\ labels = "none"
    /\ min_pts = "none"
    /\ alloc_log = "none"
    /\ ret = msg
    /\ ops = 0
    /\ copies = EmptyMap
    /\ search = NoSearch

ValueErrors == {"eps must be positive", "min_pts must be at least 1", "p must be >= 1.0"}

\* the constructor of the Python class
RustIncrementalDBSCAN_new(eps, mp, p) ==
    IF eps <= 0 THEN PyValueError("eps must be positive")
    ELSE IF mp = 0 THEN PyValueError("min_pts must be at least 1")
    ELSE IF p \in BelowOne THEN PyValueError("p must be >= 1.0")
    ELSE IncrementalDbscan_new(eps, mp, p)

\* three points on a line at unit distance
Segment == {<<0>>, <<1>>, <<2>>}

\* an engine is asked for with any parameters, through the Python class or
\* through the public constructor of the crate
InitNew ==
    \E eps \in {0, 1}, mp \in {0, 1, 2}, p \in {"0.5", "1"} :
        \/ RustIncrementalDBSCAN_new(eps, mp, p)
        \/ IncrementalDbscan_new(eps, mp, p)

NextNew ==
    /\ ret \notin ValueErrors
    /\ ops < MaxNewOps
    /\ \E coords \in Segment : Insert(coords) \/ Delete(coords)

SpecNew == InitNew /\ [][NextNew]_vars

\* Points for the spatial index alone.  With eps = 2, <<2, 0>> is at distance
\* exactly eps from <<0, 0>> under every exponent; <<1, 1>> is at distance
\* exactly eps under p = 1 and nearer under the others; <<2, 1>> is within eps
\* under p = infinity only, and so is <<2, 2>>.
Grid == {<<0, 0>>, <<2, 0>>, <<1, 1>>, <<2, 1>>, <<2, 2>>}

\* SpatialIndex::insert of a point not stored, as insert_object calls it: the
\* identifier is the hash of the coordinates
IndexInsert(coords) ==
    /\ ops < MaxIndexOps
    /\ \A i \in 1..Len(spatial.ids) : spatial.ids[i] # hash_coords(coords)
    /\ spatial' = SpatialIndex_insert(spatial, hash_coords(coords), coords)
    /\ copies' = OneMore(copies, coords)
    /\ UNCHANGED search
    /\ ret' = "unit"
    /\ ops' = ops + 1
    /\ UNCHANGED <<graph, id_to_data, id_to_node, labels, min_pts, alloc_log>>

\* SpatialIndex::delete of any identifier, stored or not
IndexDelete(coords) ==
    /\ ops < MaxIndexOps
    /\ spatial' = SpatialIndex_delete(spatial, hash_coords(coords))
    /\ copies' = OneLess(copies, coords)
    /\ UNCHANGED search
    /\ ret' = "unit"
    /\ ops' = ops + 1
    /\ UNCHANGED <<graph, id_to_data, id_to_node, labels, min_pts, alloc_log>>

InitIndex == \E p \in {"1", "2", "inf"} : IncrementalDbscan_new(2, 2, p)

NextIndex == \E coords \in Grid : IndexInsert(coords) \/ IndexDelete(coords)

SpecIndex == InitIndex /\ [][NextIndex]_vars

\* Identifiers and labels for the label registry alone: NOISE and two cluster
\* ids to set, and UNCLASSIFIED besides as a label to change from
RegistryIds == {1, 2, 3}

RegistryLabels == {CLUSTER_LABEL_NOISE, 0, 1}

\* the operation has replaced the registry by lh
RegistryBecomes(lh) ==
    /\ ops < MaxRegistryOps
    /\ labels' = lh
    /\ ret' = "unit"
    /\ ops' = ops + 1
    /\ UNCHANGED <<graph, id_to_data, id_to_node, spatial, min_pts, alloc_log, copies, search>>

RegInsert(obj_id) == RegistryBecomes(set_label_of_inserted_object(labels, obj_id))

RegSet(obj_id, label) == RegistryBecomes(set_label(labels, obj_id, label))

RegSetMany(obj_ids, label) == RegistryBecomes(set_labels(labels, obj_ids, label))

RegChange(change_from, change_to) ==
    RegistryBecomes(change_labels(labels, change_from, change_to))

RegDelete(obj_id) == RegistryBecomes(delete_label_of_deleted_object(labels, obj_id))

InitRegistry == IncrementalDbscan_new(1, 2, "1")

NextRegistry ==
    \/ \E obj_id \in RegistryIds : RegInsert(obj_id)
    \/ \E obj_id \in RegistryIds, label \in RegistryLabels : RegSet(obj_id, label)
    \/ \E some \in (SUBSET RegistryIds) \ {{}}, label \in RegistryLabels :
          \E obj_ids \in Perms(some) : RegSetMany(obj_ids, label)
    \/ \E change_from \in RegistryLabels \cup {CLUSTER_LABEL_UNCLASSIFIED},
          change_to \in RegistryLabels : RegChange(change_from, change_to)
    \/ \E obj_id \in RegistryIds : RegDelete(obj_id)

SpecRegistry == InitRegistry /\ [][NextRegistry]_vars

\* the stores a sequence of insert calls can leave
RECURSIVE InsertAll(_, _)
InsertAll(o, calls) ==
    IF Len(calls) = 0 THEN {o}
    ELSE UNION {InsertAll(o2, Tail(calls)) : o2 \in insert(o, Head(calls))}

\* the multiset a sequence of insert calls builds
RECURSIVE Tally(_)
Tally(calls) ==
    IF Len(calls) = 0 THEN EmptyMap
    ELSE OneMore(Tally(Tail(calls)), Head(calls))

\* Points in space around the corner <<0, 0, 0>> of a unit cube, inserted
\* before the corner and its neighbors <<1, 0, 0>> and <<0, 0, 1>>: an arm
\* along each of the two axes and the far side of the cube.  In ArmsJoined
\* the far side joins the two neighbors of the corner by a path of points
\* that become core; in ArmsWithBorder it ends in one point that stays
\* non-core next to <<0, 0, 1>>.
ArmsJoined ==
    << <<2, 0, 0>>, <<3, 0, 0>>, <<3, 0, 0>>,
       <<1, 1, 0>>, <<1, 1, 1>>, <<1, 1, 1>>, <<0, 1, 1>>,
       <<0, 0, 2>>, <<0, 0, 3>>, <<0, 0, 3>> >>

ArmsWithBorder ==
    << <<2, 0, 0>>, <<3, 0, 0>>, <<3, 0, 0>>, <<3, 0, 0>>,
       <<1, 1, 0>>, <<1, 1, 0>>, <<1, 1, 1>>, <<1, 1, 1>>, <<0, 1, 1>>,
       <<0, 0, 2>>, <<0, 0, 2>> >>

Corner == {<<0, 0, 0>>, <<1, 0, 0>>, <<0, 0, 1>>}

\* an engine that has taken the insert calls of ArmsJoined with min_pts = 4,
\* or those of ArmsWithBorder with min_pts = 5; ops counts the calls after
InitCorner ==
    \E build \in {[mp |-> 4, calls |-> ArmsJoined], [mp |-> 5, calls |-> ArmsWithBorder]} :
        \E built \in InsertAll(Objects_new(1, build.mp, "1"), build.calls) :
            /\ graph = built.graph
            /\ id_to_data = built.id_to_data
            /\ id_to_node = built.id_to_node
            /\ spatial = built.spatial
            /\ labels = built.labels
            /\ min_pts = built.min_pts
            /\ alloc_log = built.alloc_log
            /\ ret = "unit"
            /\ ops = 0
            /\ copies = Tally(build.calls)
            /\ search = NoSearch

NextCorner ==
    /\ ops < MaxCornerOps
    /\ \E coords \in Corner : Insert(coords) \/ Delete(coords)

SpecCorner == InitCorner /\ [][NextCorner]_vars

----------------------------------------------------------------------------
(* Vocabulary of the properties, read off the state variables *)

Live == DOMAIN id_to_data

CoreNeighborsIn(o, v) == {n \in SeqToSet(GraphNeighborIds(o, v)) : is_core(o, n)}

\* the core points joined to the core points of S by paths of core points
RECURSIVE CoreClosureIn(_, _)
CoreClosureIn(o, S) ==
    LET grown == S \cup UNION {CoreNeighborsIn(o, v) : v \in S}
    IN IF grown = S THEN S ELSE CoreClosureIn(o, grown)

LabelIn(o, v) == o.labels.object_to_label[v]

CoresIn(o) == {v \in DOMAIN o.id_to_data : is_core(o, v)}

Core(v) == is_core(Objects, v)

CoreNeighbors(v) == CoreNeighborsIn(Objects, v)

Label(v) == LabelIn(Objects, v)

CoreConnected(u, v) == Core(u) /\ Core(v) /\ v \in CoreClosureIn(Objects, {u})

LiveCores == {v \in Live : Core(v)}

\* C1: any two live core points carry the same cluster label if and only if
\* a path of core points joins them in the neighbor graph.
C1_SameLabelIffCoreConnected ==
    \A u \in LiveCores : \A v \in LiveCores :
        (Label(u) = Label(v)) <=> CoreConnected(u, v)

\* C3: every live point whose neighbor_count is at least min_pts carries a
\* cluster label >= 0.
C3_CoreHasClusterLabel ==
    \A v \in LiveCores : Label(v) >= CLUSTER_LABEL_FIRST_CLUSTER

\* C4: a live non-core point with a core neighbor carries the maximum label of
\* its core neighbors; a live non-core point without one carries NOISE.
C4_BorderCarriesMaxOrNoise ==
    \A b \in Live \ LiveCores :
        IF CoreNeighbors(b) # {}
        THEN Label(b) = SetMax({Label(c) : c \in CoreNeighbors(b)})
        ELSE Label(b) = CLUSTER_LABEL_NOISE

\* C7: after every completed call no live point carries UNCLASSIFIED, so
\* get_label never returns -2.
C7_NeverUnclassified ==
    \A v \in Live : Label(v) # CLUSTER_LABEL_UNCLASSIFIED

\* a delete has returned true and left a noise point and a clustered point
C7_Witness ==
    /\ ret = "true"
    /\ \E v \in Live : Label(v) = CLUSTER_LABEL_NOISE
    /\ \E v \in Live : Label(v) >= CLUSTER_LABEL_FIRST_CLUSTER

\* C8: a live point carries NOISE if and only if it is non-core and none of
\* its graph-neighbors is core.
C8_NoiseIffNoCoreAround ==
    \A v \in Live :
        (Label(v) = CLUSTER_LABEL_NOISE) <=> (~Core(v) /\ CoreNeighbors(v) = {})

\* C9: every freshly allocated cluster id is strictly greater than every id
\* allocated earlier in the life of the engine; none is handed out twice.
C9_FreshIdsIncrease ==
    \A i \in 1..Len(alloc_log) : \A j \in 1..Len(alloc_log) :
        i < j => alloc_log[i] < alloc_log[j]

\* a later id has been handed out and is carried while an earlier one is
\* carried by no live point any more
C9_Witness ==
    /\ Len(alloc_log) >= 2
    /\ \E v \in Live : Label(v) = alloc_log[Len(alloc_log)]
    /\ \E i \in 1..(Len(alloc_log) - 1) : \A v \in Live : Label(v) # alloc_log[i]

----------------------------------------------------------------------------
(* Batch density-based clustering of the stored point multiset, computed from
   the coordinates held by the spatial index and the multiplicities alone *)

CoordsOf(v) == spatial.coords[CHOOSE i \in 1..Len(spatial.ids) : spatial.ids[i] = v]

BatchNeighborhood(v) == {n \in Live : Within(spatial, CoordsOf(v), CoordsOf(n))}

RECURSIVE SumCounts(_)
SumCounts(S) ==
    IF S = {} THEN 0
    ELSE LET x == CHOOSE y \in S : TRUE IN id_to_data[x].count + SumCounts(S \ {x})

BatchCore(v) == SumCounts(BatchNeighborhood(v)) >= min_pts

BatchCores == {v \in Live : BatchCore(v)}

RECURSIVE BatchClosure(_)
BatchClosure(S) ==
    LET grown == S \cup UNION {BatchNeighborhood(v) \cap BatchCores : v \in S}
    IN IF grown = S THEN S ELSE BatchClosure(grown)

\* C2: the partition into clusters and noise equals the one a batch run
\* computes on the final multiset: cores grouped by core-connectivity and in
\* no noise class, points without a core in their neighborhood noise, every
\* border point in the cluster of one of its core neighbors.
C2_PartitionEqualsBatch ==
    /\ \A u \in BatchCores : Label(u) >= CLUSTER_LABEL_FIRST_CLUSTER
    /\ \A u \in BatchCores : \A v \in BatchCores :
           (Label(u) = Label(v)) <=> (v \in BatchClosure({u}))
    /\ \A b \in Live \ BatchCores :
           IF BatchNeighborhood(b) \cap BatchCores = {}
           THEN Label(b) = CLUSTER_LABEL_NOISE
           ELSE Label(b) \in {Label(c) : c \in BatchNeighborhood(b) \cap BatchCores}

\* what a caller can observe of a store: labels, counts and neighbor counts
Observable(o) ==
    [label |-> o.labels.object_to_label,
     count |-> [v \in DOMAIN o.id_to_data |-> o.id_to_data[v].count],
     neighbor_count |-> [v \in DOMAIN o.id_to_data |-> o.id_to_data[v].neighbor_count]]

\* C10: the observable state after a call is a function of the state before
\* it and of the call, whatever order the unordered sets are iterated in; so
\* the state after a sequence of calls is a function of the sequence.
C10_OutcomeIndependentOfIterationOrder ==
    \A coords \in SquareWithTail :
        /\ Cardinality({Observable(o) : o \in insert(Objects, coords)}) = 1
        /\ Cardinality({Observable(r.objects) : r \in delete(Objects, hash_coords(coords))}) = 1

----------------------------------------------------------------------------
(* Steps: what a transition did, read off the two states *)

\* the step is a delete call that found its object
DeleteStep == ops' = ops + 1 /\ ret' = "true"

\* the step is an insert call
InsertStep == ops' = ops + 1 /\ ret' = "unit"

\* the labels handed out by get_next_cluster_label during the step
FreshIn(before, after) == {after[i] : i \in (Len(before) + 1)..Len(after)}

\* the cluster ids carried by live points of a store
ClusterIdsIn(o) ==
    {LabelIn(o, v) : v \in DOMAIN o.id_to_data} \ {CLUSTER_LABEL_UNCLASSIFIED, CLUSTER_LABEL_NOISE}

\* the core points of `after` that carried l in `before`, cut into core-connected parts
SurvivingParts(before, after, l) ==
    LET surviving == {v \in CoresIn(after) :
                         v \in DOMAIN before.id_to_data /\ LabelIn(before, v) = l}
    IN {CoreClosureIn(after, {v}) \cap surviving : v \in surviving}

SplitRelabelled(before, after, l) ==
    LET parts == SurvivingParts(before, after, l)
        fresh == FreshIn(before.alloc_log, after.alloc_log)
    IN Cardinality(parts) >= 2 =>
          \E kept \in parts :
              /\ \A v \in kept : LabelIn(after, v) = l
              /\ \A part \in parts \ {kept} :
                    \E f \in fresh :
                        /\ \A v \in part : LabelIn(after, v) = f
                        /\ f \notin DOMAIN before.labels.label_to_objects
                        /\ \A other \in parts \ {part} : \A v \in other : LabelIn(after, v) # f

\* C5: when a delete leaves the surviving core points of one cluster in k >= 2
\* core-connected parts, one part keeps the cluster id and each other part
\* carries a fresh id of its own, distinct from the others and from every id
\* in use before the delete.
C5_SplitKeepsOneAndAllocatesFresh ==
    [][DeleteStep => \A l \in ClusterIdsIn(Objects) : SplitRelabelled(Objects, Objects', l)]_vars

\* the components of update seeds of the insert of coords into `before`, with
\* the cluster ids their members carry when the call starts relabelling
MergedIdSets(before, coords) ==
    LET o1 == insert_object(before, coords)
        sep == separate_core_neighbors_by_novelty(o1, hash_coords(coords))
    IN IF sep.new_cores = {} THEN {}
       ELSE {get_effective_cluster_labels(o1, component) :
                component \in get_connected_components_within(
                                  o1, get_update_seeds(o1, sep.new_cores))}

Merged(before, after, ids) ==
    Cardinality(ids) >= 2 =>
        /\ \A v \in DOMAIN before.id_to_data :
              LabelIn(before, v) \in ids => LabelIn(after, v) = SetMax(ids)
        /\ \A v \in DOMAIN after.id_to_data : LabelIn(after, v) \notin ids \ {SetMax(ids)}

\* as Merged, but the common id may be larger than the largest of ids, and
\* only the points that are core afterwards are held to it
MergedUpwards(before, after, ids) ==
    Cardinality(ids) >= 2 =>
        /\ \E common \in ClusterIdsIn(after) :
              /\ common >= SetMax(ids)
              /\ \A v \in DOMAIN before.id_to_data :
                    (LabelIn(before, v) \in ids /\ is_core(after, v))
                        => LabelIn(after, v) = common
        /\ \A v \in DOMAIN after.id_to_data : LabelIn(after, v) \notin ids \ {SetMax(ids)}

\* the coordinate the insert step was called with: its count went up
InsertedWith(coords) ==
    /\ InsertStep
    /\ hash_coords(coords) \in DOMAIN id_to_data'
    /\ id_to_data'[hash_coords(coords)].count =
          (IF hash_coords(coords) \in Live THEN id_to_data[hash_coords(coords)].count ELSE 0) + 1

\* C6: when an insert produces a new core whose component of update seeds
\* holds core points of several clusters, afterwards every point that carried
\* one of those cluster ids carries the largest of them and no live point
\* carries a smaller one.
C6_MergeIntoLargestId ==
    [][\A coords \in Corner :
          InsertedWith(coords) =>
              \A ids \in MergedIdSets(Objects, coords) : Merged(Objects, Objects', ids)]_vars


\* C6 (amended): when an insert produces a new core whose component of update
\* seeds holds core points of several clusters, afterwards the points that
\* carried one of those cluster ids and are core carry one common id, at least
\* the largest of them, and no live point carries a smaller one.
C6_MergeIntoCommonId ==
    [][\A coords \in Corner :
          InsertedWith(coords) =>
              \A ids \in MergedIdSets(Objects, coords) : MergedUpwards(Objects, Objects', ids)]_vars

\* the corner was inserted after its two neighbors into the joined arms: the
\* three clusters handed out so far have become one, under the last id
C6_Witness ==
    /\ ops = 3
    /\ min_pts = 4
    /\ Len(alloc_log) = 3
    /\ \A coords \in Corner : hash_coords(coords) \in Live
    /\ \A v \in Live : Label(v) = alloc_log[3]

----------------------------------------------------------------------------
(* The store against the multiset the caller has built *)

\* the number of copies of coords the caller holds
Copies(coords) == IF coords \in DOMAIN copies THEN copies[coords] ELSE 0

\* the weights of the occupied vertices of the graph
GraphWeights == UNION {graph.nodes[k] : k \in DOMAIN graph.nodes}

\* the identifiers with an entry in either map of the label registry
LabelledIds ==
    (DOMAIN labels.object_to_label)
        \cup UNION {labels.label_to_objects[l] : l \in DOMAIN labels.label_to_objects}

\* C11: once every copy inserted has been deleted again (the same coordinate
\* inserted N times and deleted N times) the engine holds no live point: no
\* per-point record, graph vertex, spatial entry or label entry, and get_label
\* is absent.
C11_AllCopiesDeletedNothingLeft ==
    copies = EmptyMap =>
        /\ DOMAIN id_to_data = {}
        /\ DOMAIN id_to_node = {}
        /\ GraphWeights = {}
        /\ Len(spatial.ids) = 0
        /\ Len(spatial.coords) = 0
        /\ LabelledIds = {}
        /\ \A coords \in Square : IncrementalDbscan_get_label(coords) = {}

\* three copies of one coordinate were inserted, which made it core under
\* min_pts = 3 in a graph that never held a second vertex, and three deleted
C11_Witness ==
    /\ ops = 6
    /\ ret = "true"
    /\ copies = EmptyMap
    /\ min_pts = 3
    /\ Len(graph.nodes) = 1
    /\ Len(alloc_log) = 1

\* C12: every live point v has neighbor_count(v) = count(v) + the sum of
\* count(n) over the graph-neighbors n of v.
C12_NeighborCountIsWeightedDegree ==
    \A v \in Live :
        id_to_data[v].neighbor_count =
            id_to_data[v].count + SumCounts(SeqToSet(GraphNeighborIds(Objects, v)))

\* a delete has just returned true, an earlier full removal has left a vacant
\* vertex slot, and a point held twice neighbors another live point
C12_Witness ==
    /\ ret = "true"
    /\ Len(graph.free) >= 1
    /\ \E v \in Live :
          /\ id_to_data[v].count >= 2
          /\ Len(GraphNeighborIds(Objects, v)) >= 1

\* the identifiers stored in the spatial index
SpatialIds == SeqToSet(spatial.ids)

\* the occupied vertex slots whose weight is v
SlotsOf(v) == {k \in DOMAIN graph.nodes : graph.nodes[k] = {v}}

\* C13: the identifiers of the spatial index, the keys of the per-point
\* records and of the id-to-vertex map, and the vertex weights of the graph
\* are one set, each identifier occurring exactly once in each structure.
C13_StructuresAgreeOnLiveIds ==
    /\ SpatialIds = DOMAIN id_to_data
    /\ DOMAIN id_to_node = DOMAIN id_to_data
    /\ GraphWeights = DOMAIN id_to_data
    /\ Len(spatial.coords) = Len(spatial.ids)
    /\ \A i \in 1..Len(spatial.ids) : \A j \in 1..Len(spatial.ids) :
           spatial.ids[i] = spatial.ids[j] => i = j
    /\ \A v \in DOMAIN id_to_data :
           /\ SlotsOf(v) = {id_to_node[v]}
           /\ id_to_data[v].id = v
           /\ id_to_data[v].node_idx = id_to_node[v]

\* points have been removed for good and a vertex slot has been used again:
\* two points are live, a slot is vacant and a delete has just returned true
C13_Witness ==
    /\ ret = "true"
    /\ Cardinality(Live) >= 2
    /\ Len(graph.free) >= 1
    /\ \E v \in Live : id_to_node[v] < Len(graph.nodes) /\ spatial.ids[Len(spatial.ids)] = v

\* the coordinates the caller holds at least one copy of
Held == DOMAIN copies

\* dist(a, b) <= eps under the metric the engine was built with
Near(a, b) ==
    IF spatial.p = "2" THEN squared_euclidean_distance(a, b) <= spatial.eps * spatial.eps
    ELSE IF spatial.p = "1" THEN manhattan_distance(a, b) <= spatial.eps
    ELSE chebyshev_distance(a, b) <= spatial.eps

\* how many times vertex slot k lists vertex slot m as a neighbor
EdgesSeen(k, m) ==
    Cardinality({i \in 1..Len(neighbors(graph, k)) : neighbors(graph, k)[i] = m})

\* C14: the graph has an edge between two live points exactly when they
\* differ and lie within eps of each other; it has no self-loop, no parallel
\* edge, and no edge at a removed point.
C14_EdgesAreEpsNeighborhoods ==
    /\ \A a \in Held : \A b \in Held :
           /\ hash_coords(a) \in DOMAIN id_to_node
           /\ hash_coords(b) \in DOMAIN id_to_node
           /\ EdgesSeen(id_to_node[hash_coords(a)], id_to_node[hash_coords(b)])
                  = (IF a # b /\ Near(a, b) THEN 1 ELSE 0)
    /\ \A k \in DOMAIN graph.nodes :
           graph.nodes[k] = {} =>
               /\ Len(neighbors(graph, k)) = 0
               /\ \A m \in DOMAIN graph.nodes : EdgesSeen(m, k) = 0

\* a point with edges has been removed for good while two neighbors and two
\* points too far apart for an edge are live
C14_Witness ==
    /\ ret = "true"
    /\ Len(graph.free) >= 1
    /\ \E a \in Held : \E b \in Held : a # b /\ Near(a, b)
    /\ \E a \in Held : \E b \in Held : ~Near(a, b)

\* the step is a delete call, whatever it returned
DeleteCall == ops' = ops + 1 /\ ret' # "unit"

\* C15: delete of a coordinate that is not live returns false and leaves
\* records, counts, graph, spatial index and labels as they were; delete of a
\* live coordinate returns true.
C15_DeleteOfAbsentIsNoOp ==
    [][DeleteCall =>
          IF copies' = copies
          THEN /\ ret' = "false"
               /\ UNCHANGED <<graph, id_to_data, id_to_node, spatial, labels, min_pts, alloc_log>>
          ELSE ret' = "true"]_vars

\* a delete has returned false on an engine that holds points and has removed
\* one for good before
C15_Witness ==
    /\ ret = "false"
    /\ Live # {}
    /\ Len(graph.free) >= 1

\* C16: get_label(coords) returns a label exactly when the caller has inserted
\* coords more often than deleted it, and nothing otherwise; the label registry
\* has entries for the identifiers of the held coordinates and for no other.
C16_LabelExactlyForLivePoints ==
    /\ \A coords \in SquareWithTail :
           Cardinality(IncrementalDbscan_get_label(coords))
               = IF Copies(coords) > 0 THEN 1 ELSE 0
    /\ LabelledIds = {hash_coords(coords) : coords \in Held}
    /\ DOMAIN labels.object_to_label = {hash_coords(coords) : coords \in Held}

\* a delete has just removed the last copy of a coordinate while a clustered
\* point stays behind
C16_Witness ==
    /\ ret = "true"
    /\ Len(graph.free) >= 1
    /\ \E coords \in Held :
           \E l \in IncrementalDbscan_get_label(coords) : l >= 0

\* C17: an engine that has taken an insert or delete call was not constructed
\* with eps <= 0, min_pts = 0 or p < 1.
C17_RejectedParametersNeverInUse ==
    ops > 0 =>
        /\ spatial.eps > 0
        /\ min_pts # 0
        /\ spatial.p \notin BelowOne

\* what the label registry lh is to answer when asked for the next cluster
\* label: 0 while it knows no label >= 0, the maximum known label plus 1 after
NextLabelDue(lh) ==
    LET clusters == {l \in DOMAIN lh.label_to_objects : l >= 0}
    IN IF clusters = {} THEN 0 ELSE SetMax(clusters) + 1

\* C18: next_cluster_label returns 0 while the registry knows no label >= 0
\* (nothing, UNCLASSIFIED, NOISE or both) and the maximum known label plus 1
\* otherwise: the first label a call obtains from it is the one due in the
\* registry the call found.
C18_NextClusterLabelIsZeroOrMaxPlusOne ==
    [][Len(alloc_log') > Len(alloc_log) =>
          alloc_log'[Len(alloc_log) + 1] = NextLabelDue(labels)]_vars

\* no other coordinate the caller holds lies within eps of coords
Isolated(coords) == \A other \in Held \ {coords} : ~Near(coords, other)

\* C19: a held coordinate with no other point within eps and k copies has
\* count = k and neighbor_count = k; it is core with a label >= 0 exactly when
\* k >= min_pts and carries NOISE otherwise.
C19_IsolatedPointFollowsItsMultiplicity ==
    \A coords \in Held :
        Isolated(coords) =>
            LET k == copies[coords]
                d == id_to_data[hash_coords(coords)]
            IN /\ d.count = k
               /\ d.neighbor_count = k
               /\ is_core(Objects, hash_coords(coords)) <=> (k >= min_pts)
               /\ IF k >= min_pts
                  THEN \E l \in IncrementalDbscan_get_label(coords) : l >= 0
                  ELSE IncrementalDbscan_get_label(coords) = {CLUSTER_LABEL_NOISE}

\* the same for the engines with min_pts >= 2 alone
IsolatedPointFromTwo == min_pts >= 2 => C19_IsolatedPointFollowsItsMultiplicity

\* f[1] + ... + f[n]
RECURSIVE SumTo(_, _)
SumTo(f, n) == IF n = 0 THEN 0 ELSE f[n] + SumTo(f, n - 1)

\* b lies within eps of a under the exponent of the index, from the definition
\* of the distance: the sum of the gaps for p = 1, the root of the sum of
\* their squares for p = 2, the largest gap for p = infinity
InBall(a, b) ==
    LET gap == [i \in 1..Len(a) |-> Abs(a[i] - b[i])]
        square == [i \in 1..Len(a) |-> gap[i] * gap[i]]
    IN IF spatial.p = "1" THEN SumTo(gap, Len(a)) <= spatial.eps
       ELSE IF spatial.p = "2" THEN SumTo(square, Len(a)) <= spatial.eps * spatial.eps
       ELSE \A i \in 1..Len(a) : gap[i] <= spatial.eps

\* C20: after any sequence of SpatialIndex inserts and deletes, query_radius
\* returns, once each, exactly the identifiers of the points stored and not
\* deleted whose coordinates as inserted lie within eps of the query, the
\* boundary included, for p = 1, 2 and infinity; every identifier stays paired
\* with its own coordinates.
C20_QueryRadiusIsTheClosedBall ==
    /\ \A q \in Grid :
           LET found == query_radius(spatial, q)
           IN /\ SeqToSet(found) = {hash_coords(c) : c \in {h \in Held : InBall(q, h)}}
              /\ Len(found) = Cardinality(SeqToSet(found))
    /\ Len(spatial.ids) = Len(spatial.coords)
    /\ \A i \in 1..Len(spatial.ids) : spatial.ids[i] = hash_coords(spatial.coords[i])

\* under p = 2, four calls (such as the inserts of <<0, 0>>, <<2, 0>> and
\* <<2, 1>> and the delete of <<0, 0>>, which moves the last point to the
\* front) have left <<2, 1>> before <<2, 0>>, and a query at <<0, 0>> finds the
\* point at distance exactly eps and not the one at distance root 5
C20_Witness ==
    /\ spatial.p = "2"
    /\ ops = 4
    /\ spatial.ids = <<hash_coords(<<2, 1>>), hash_coords(<<2, 0>>)>>
    /\ Held = {<<2, 0>>, <<2, 1>>}
    /\ query_radius(spatial, <<0, 0>>) = <<hash_coords(<<2, 0>>)>>

----------------------------------------------------------------------------
(* The order of the answers of the spatial index *)

\* the place of x in a sequence without repetition
Position(seq, x) == CHOOSE i \in 1..Len(seq) : seq[i] = x

\* seq without x
Without(seq, x) == SelectSeq(seq, LAMBDA y : y # x)

\* the identifiers in both sequences come in the same order in both
KeepsOrder(before, after) ==
    \A x, y \in SeqToSet(before) \cap SeqToSet(after) :
        Position(before, x) < Position(before, y) => Position(after, x) < Position(after, y)

\* the identifiers of after that before lacks come behind all others
NewcomersLast(before, after) ==
    \A x \in SeqToSet(after) \ SeqToSet(before) :
        \A y \in SeqToSet(after) \cap SeqToSet(before) :
            Position(after, y) < Position(after, x)

\* a query at a stored point returns the point's own identifier
OwnIdentifierFound(sp) ==
    \A i \in 1..Len(sp.ids) : sp.ids[i] \in SeqToSet(query_radius(sp, sp.coords[i]))

\* C21 as stated: query_radius answers in the order in which the remaining
\* points were inserted (no step changes the order of two identifiers that
\* stay, a new identifier comes last) and contains the identifier of the
\* query point whenever that point is stored.
C21_AnswersInInsertionOrder ==
    [][/\ OwnIdentifierFound(spatial')
       /\ \A q \in Grid :
              LET before == query_radius(spatial, q)
                  after == query_radius(spatial', q)
              IN KeepsOrder(before, after) /\ NewcomersLast(before, after)]_vars

\* C21 amended: query_radius answers in storage order and contains the
\* identifier of the query point whenever that point is stored.  Storage order
\* is insertion order until a delete: an insert puts the new identifier last
\* and keeps the order of the others; a delete keeps the order of the
\* identifiers that stay except for the one stored last, which takes the
\* place of the deleted one.
C21_AnswersInStorageOrder ==
    [][/\ OwnIdentifierFound(spatial')
       /\ \A q \in Grid :
              LET before == query_radius(spatial, q)
                  after == query_radius(spatial', q)
              IN IF Len(spatial'.ids) >= Len(spatial.ids)
                 THEN KeepsOrder(before, after) /\ NewcomersLast(before, after)
                 ELSE LET moved == spatial.ids[Len(spatial.ids)]
                          gone == CHOOSE x \in SeqToSet(spatial.ids) :
                                      x \notin SeqToSet(spatial'.ids)
                      IN /\ KeepsOrder(Without(before, moved), Without(after, moved))
                         /\ moved # gone =>
                                Position(spatial'.ids, moved) = Position(spatial.ids, gone)]_vars

\* under p = infinity, where every point of Grid is within eps of every
\* other, four calls (such as the inserts of <<0, 0>>, <<2, 0>> and <<2, 2>>
\* and the delete of <<0, 0>>) have left <<2, 2>> stored before <<2, 0>>, and
\* a query answers in that order
C21_Witness ==
    /\ spatial.p = "inf"
    /\ ops = 4
    /\ Held = {<<2, 0>>, <<2, 2>>}
    /\ query_radius(spatial, <<2, 0>>) = <<hash_coords(<<2, 2>>), hash_coords(<<2, 0>>)>>

----------------------------------------------------------------------------
(* The split search as delete calls it *)

\* The calls of find_split_components a delete of coords makes on the store
\* as it is: the store after delete_object, and the update seeds of one
\* cluster, two or more and not all adjacent to each other, in an order the
\* HashSet of seeds can be iterated in.
SplitCalls(coords) ==
    LET r == delete_object(Objects, hash_coords(coords))
        o1 == r.objects
        ex_cores == get_objects_that_lost_core_property(o1, r.info)
        sn == get_update_seeds_and_non_core_neighbors_of_ex_cores(o1, ex_cores, r.info)
        carried == UNION {get_label(o1, id) : id \in sn.update_seeds}
        groups == {{id \in sn.update_seeds : get_label(o1, id) = {l}} : l \in carried}
    IN {[o |-> o1, seed_ids |-> order] :
           order \in UNION {Perms(g) : g \in {h \in groups : Cardinality(h) >= 2}}}
       \cap {call \in [o : {o1}, seed_ids : UNION {Perms(g) : g \in groups}] :
                ~objects_are_neighbors_of_each_other(o1, call.seed_ids)}

\* C23: when the split search has emptied its queue, any two visited core
\* vertices joined by a path of core points have the same seed in
\* node_to_seed, for every order of the seeds.
C23_SeedsConvergeOnCoreConnected ==
    \A coords \in Held : \A call \in SplitCalls(coords) :
        LET n2s == SplitTraversal(call.o, call.seed_ids).node_to_seed
            id_of(k) == node_weight(call.o.graph, k)
            cores == {k \in DOMAIN n2s : is_core(call.o, id_of(k))}
        IN \A u \in cores : \A v \in cores :
               id_of(v) \in CoreClosureIn(call.o, {id_of(u)}) => n2s[u] = n2s[v]

\* the core points of the store o joined to the point v by paths of core points
CoreClass(o, v) == CoreClosureIn(o, {v})

\* the core points of a set of identifiers
CorePart(o, S) == {v \in S : is_core(o, v)}

\* C22: for seeds that are all core and carry one cluster label,
\* find_split_components retains the component with the most discovered
\* points and returns the others; the core points of every returned set are
\* exactly one class of core points joined by paths of core points, and no
\* returned set holds a point joined in that way to a point of the retained
\* component.
C22_SplitComponentsAreCoreClasses ==
    \A coords \in Held : \A call \in SplitCalls(coords) :
        LET s2c == SplitTraversal(call.o, call.seed_ids).seed_to_component
            all == {s2c[s] : s \in DOMAIN s2c}
        IN \A returned \in find_split_components(call.o, call.seed_ids) :
               LET given == SeqToSet(returned)
               IN /\ \E retained \in all :
                        /\ all \ {retained} \subseteq given
                        /\ given \subseteq all
                        /\ \A part \in all : Cardinality(part) <= Cardinality(retained)
                        /\ \A part \in given : \A v \in CorePart(call.o, part) :
                               CoreClass(call.o, v) \cap retained = {}
                  /\ \A part \in given : \A v \in CorePart(call.o, part) :
                         CorePart(call.o, part) = CoreClass(call.o, v)

\* the points of `after` that carried l in `before`
FormerlyOf(before, after, l) ==
    {v \in DOMAIN after.id_to_data :
        v \in DOMAIN before.id_to_data /\ LabelIn(before, v) = l}

\* the cluster l is not split: its surviving core points are in one
\* core-connected part; then they all keep l and no point of the cluster
\* receives an id allocated by the call
KeptWhole(before, after, l) ==
    Cardinality(SurvivingParts(before, after, l)) <= 1 =>
        /\ \A v \in CorePart(after, FormerlyOf(before, after, l)) : LabelIn(after, v) = l
        /\ \A v \in FormerlyOf(before, after, l) :
               LabelIn(after, v) \notin FreshIn(before.alloc_log, after.alloc_log)

\* C24: a delete after which the surviving core points of a cluster are still
\* all core-connected to each other allocates no fresh cluster id for that
\* cluster and leaves the label of every surviving core point unchanged.
C24_UnsplitClusterKeepsItsId ==
    [][DeleteStep => \A l \in ClusterIdsIn(Objects) : KeptWhole(Objects, Objects', l)]_vars

----------------------------------------------------------------------------
(* The cases of insert and delete, read off the two states of a step *)

\* the identifier of the coordinate whose number of copies the step changed
Touched == hash_coords(CHOOSE c \in (DOMAIN copies) \cup (DOMAIN copies') :
                         (IF c \in DOMAIN copies' THEN copies'[c] ELSE 0) # Copies(c))

\* v and its graph neighbors in the store o
ClosedNeighborhood(o, v) == {v} \cup SeqToSet(GraphNeighborIds(o, v))

\* after the insert of v no point around v has just reached min_pts and v is
\* not core itself
NoNewCore(after, v) ==
    /\ \A n \in ClosedNeighborhood(after, v) : after.id_to_data[n].neighbor_count # after.min_pts
    /\ after.id_to_data[v].neighbor_count < after.min_pts

\* the neighbors of v with neighbor_count > min_pts
OldCoresAround(after, v) ==
    {n \in ClosedNeighborhood(after, v) \ {v} :
        after.id_to_data[n].neighbor_count > after.min_pts}

\* C25: an insert after which no point of the inserted point's closed
\* neighborhood is a new core gives the inserted point the maximum label of
\* its neighbors with neighbor_count > min_pts, or NOISE if there is none,
\* changes the label of no other point and allocates no cluster id.
C25_CaseALabelsOnlyTheInsertedPoint ==
    [][(InsertStep /\ NoNewCore(Objects', Touched)) =>
          LET old == OldCoresAround(Objects', Touched)
          IN /\ LabelIn(Objects', Touched) =
                    (IF old = {} THEN CLUSTER_LABEL_NOISE ELSE SetMax({Label(c) : c \in old}))
             /\ \A v \in Live \ {Touched} : LabelIn(Objects', v) = Label(v)
             /\ alloc_log' = alloc_log]_vars

\* with min_pts = 3, four inserts have left <<0, 0>> next to two copies of
\* <<1, 0>>, both core, and one copy of <<0, 1>>, which has neighbor_count 2
\* and carries the cluster id of <<0, 0>>, whose neighbor_count is 4
C25_Witness ==
    /\ min_pts = 3
    /\ ops = 4
    /\ ret = "unit"
    /\ copies = (<<0, 0>> :> 1 @@ <<1, 0>> :> 2 @@ <<0, 1>> :> 1)
    /\ id_to_data[hash_coords(<<0, 1>>)].neighbor_count = 2
    /\ id_to_data[hash_coords(<<0, 0>>)].neighbor_count = 4
    /\ Label(hash_coords(<<0, 1>>)) = Label(hash_coords(<<0, 0>>))
    /\ Label(hash_coords(<<0, 1>>)) >= 0

\* the points that were core in `before` and are not core in `after`: not core
\* any more, or no longer present
LostCore(before, after) ==
    {v \in DOMAIN before.id_to_data : is_core(before, v) /\ ~is_core(after, v)}

\* the non-core points of `after` in the closed neighborhood of a point that
\* lost core status
BordersOfLostCores(before, after) ==
    {b \in UNION {ClosedNeighborhood(before, e) : e \in LostCore(before, after)} :
        b \in DOMAIN after.id_to_data /\ ~is_core(after, b)}

\* C26: after a delete every live non-core point in the closed neighborhood of
\* a point that lost core status in this delete (the ex-cores themselves
\* included) carries the maximum label of the core points in its own closed
\* neighborhood, or NOISE if it has no core neighbor.
C26_BordersOfExCoresCarryMaxAround ==
    [][DeleteStep =>
          \A b \in BordersOfLostCores(Objects, Objects') :
              LET around == CorePart(Objects', ClosedNeighborhood(Objects', b))
              IN LabelIn(Objects', b) =
                     (IF around = {} THEN CLUSTER_LABEL_NOISE
                      ELSE SetMax({LabelIn(Objects', c) : c \in around}))]_vars

\* a delete has returned true, a cluster has existed, and the points still
\* live are all non-core and noise: deletes have taken the core status of
\* every core point and the points around them were relabelled
C26_Witness ==
    /\ ret = "true"
    /\ Len(alloc_log) >= 1
    /\ Cardinality(Live) >= 2
    /\ LiveCores = {}
    /\ \A v \in Live : Label(v) = CLUSTER_LABEL_NOISE

\* the ex-core set the delete of the object v computes on the store `before`
ExCoresComputed(before, v) ==
    LET r == delete_object(before, v)
    IN SeqToSet(get_objects_that_lost_core_property(r.objects, r.info))

\* C27 as stated: the ex-core set computed by delete holds exactly the points
\* that were core before the delete and are not core after it.
C27_ExCoresAreThePointsThatLostCore ==
    [][DeleteStep => ExCoresComputed(Objects, Touched) = LostCore(Objects, Objects')]_vars

\* C27 amended: the ex-core set computed by delete holds the points that were
\* core before the delete and are not core after it, and the deleted point
\* whenever it was core before the delete, also when a remaining copy of it
\* is still core.
C27_ExCoresAreLostCoresAndDeletedCore ==
    [][DeleteStep =>
          ExCoresComputed(Objects, Touched) =
              LostCore(Objects, Objects') \cup CorePart(Objects, {Touched})]_vars

\* with min_pts = 2, three inserts and one delete on a graph that never held
\* a third vertex: the deleted point had two copies, was core, and its
\* remaining copy is core next to its neighbor
C27_Witness ==
    /\ min_pts = 2
    /\ ops = 4
    /\ ret = "true"
    /\ Len(graph.nodes) = 2
    /\ Len(graph.free) = 0
    /\ Cardinality(Held) = 2
    /\ \A c \in Held : copies[c] = 1 /\ Core(hash_coords(c))

----------------------------------------------------------------------------
(* The label registry *)

\* the labels the registry lh knows in either map
KnownLabels(lh) ==
    (DOMAIN lh.label_to_objects) \cup {lh.object_to_label[p] : p \in DOMAIN lh.object_to_label}

\* the points the registry lh knows in either map
KnownPoints(lh) ==
    (DOMAIN lh.object_to_label)
        \cup UNION {lh.label_to_objects[l] : l \in DOMAIN lh.label_to_objects}

\* p is a member of label_to_objects[l]
InSetOf(lh, p, l) == l \in DOMAIN lh.label_to_objects /\ p \in lh.label_to_objects[l]

\* object_to_label[p] = l
Carries(lh, p, l) == p \in DOMAIN lh.object_to_label /\ lh.object_to_label[p] = l

MapsAgree(lh) ==
    \A p \in KnownPoints(lh) : \A l \in KnownLabels(lh) : InSetOf(lh, p, l) <=> Carries(lh, p, l)

\* C28 as stated: after every registry operation in any sequence a point p is
\* a member of label_to_objects[l] if and only if object_to_label[p] = l.
C28_MapsAgreeAfterAnySequence == MapsAgree(labels)

\* the step has registered anew a point that carried a label other than
\* UNCLASSIFIED
Reregistered ==
    \E p \in DOMAIN labels.object_to_label :
        /\ labels.object_to_label[p] # CLUSTER_LABEL_UNCLASSIFIED
        /\ Carries(labels', p, CLUSTER_LABEL_UNCLASSIFIED)

\* C28 amended: every registry operation keeps the two maps in agreement,
\* except set_label_of_inserted_object applied to a point that already
\* carries a label other than UNCLASSIFIED.
C28_MapsAgreeUnlessReregistered ==
    [][(MapsAgree(labels) /\ ~Reregistered) => MapsAgree(labels')]_vars

\* two points were registered, labelled 0 together and moved to 1 by
\* change_labels: the maps agree, the key 0 is gone and the key UNCLASSIFIED
\* is left with no member
C28_Witness ==
    /\ ops = 4
    /\ MapsAgree(labels)
    /\ labels.object_to_label = (1 :> 1 @@ 2 :> 1)
    /\ DOMAIN labels.label_to_objects = {CLUSTER_LABEL_UNCLASSIFIED, 1}

\* what change_labels(from, to) is to make of the registry lh
Relabelled(lh, from, to) ==
    LET after == change_labels(lh, from, to)
    IN IF from = to THEN after = lh
       ELSE /\ KnownPoints(after) = KnownPoints(lh)
            /\ \A p \in KnownPoints(lh) :
                   /\ Carries(lh, p, from) => Carries(after, p, to) /\ InSetOf(after, p, to)
                   /\ ~Carries(after, p, from) /\ ~InSetOf(after, p, from)
                   /\ ~Carries(lh, p, from) =>
                          \A l \in KnownLabels(lh) \cup KnownLabels(after) :
                              /\ Carries(after, p, l) <=> Carries(lh, p, l)
                              /\ InSetOf(after, p, l) <=> InSetOf(lh, p, l)

C30_BorderTouchesACoreOfItsCluster ==
    /\ \A b \in Live \ LiveCores :
           Label(b) >= CLUSTER_LABEL_FIRST_CLUSTER =>
               \E c \in CoreNeighbors(b) : Label(c) = Label(b)
    /\ \A l \in ClusterIdsIn(Objects) : \E c \in LiveCores : Label(c) = l

----------------------------------------------------------------------------
(* The unsigned subtractions of delete *)

\* the values the delete of the live object v takes 1 from, on the store
\* `before`: its count, the neighbor_count of v and of each graph neighbor
\* (delete_object), and min_pts once for every neighbor other than v that the
\* ex-core test looks at (get_objects_that_lost_core_property)
DeleteMinuends(before, v) ==
    LET r == delete_object(before, v)
        tested == {nid \in SeqToSet(r.info.neighbor_ids) :
                      nid # r.info.id /\ nid \in DOMAIN r.objects.id_to_data}
    IN {before.id_to_data[v].count}
       \cup {before.id_to_data[nid].neighbor_count :
                nid \in SeqToSet(neighbor_ids_including_self(before, v))}
       \cup {r.objects.min_pts : nid \in tested}

\* every live point has neighbor_count >= count >= 1
CountsInOrder ==
    \A v \in Live :
        /\ GeqU32(id_to_data[v].count, 1)
        /\ GeqU32(id_to_data[v].neighbor_count, id_to_data[v].count)

\* C31: every live point has neighbor_count >= count >= 1 in every state, and
\* no delete that finds its object takes 1 from an unsigned value that is 0:
\* not from count, not from a neighbor_count, and not from min_pts in the
\* ex-core test, on every engine that can be constructed.
C31_NoDeleteSubtractsBelowZero ==
    /\ [](ret \notin ValueErrors => CountsInOrder)
    /\ [][DeleteStep => \A m \in DeleteMinuends(Objects, Touched) : GeqU32(m, 1)]_vars

----------------------------------------------------------------------------
(* The searches of insert and delete, one loop pass at a time.  While a search
   is followed the store variables keep the state the call was made in; the
   frame in `search` holds the store the search reads and its locals. *)

\* calls made before a search is followed
MaxSearchOps == 4

\* find_split_components entered: the frame before the first pass of the while
\* loop; pushed is history, the nodes pushed through a tree edge so far
SplitFrame(call) ==
    [kind |-> "split",
     o |-> call.o,
     seed_ids |-> call.seed_ids,
     st |-> SplitSeeded(call.o, call.seed_ids),
     pushed |-> <<>>]

\* get_connected_components_within entered with obj_ids, iterated in `order`:
\* the frame before the first pass of "for &start_id in obj_ids", or the frame
\* of the early return; popped is history, the ids the inner loop has popped
WithinFrame(call) ==
    [kind |-> "within",
     o |-> call.o,
     obj_ids |-> call.obj_ids,
     starts |-> IF Cardinality(call.obj_ids) <= 1 THEN <<>> ELSE call.order,
     visited |-> {},
     components |-> IF Cardinality(call.obj_ids) <= 1 THEN <<call.obj_ids>> ELSE <<>>,
     component |-> {},
     queue |-> <<>>,
     running |-> FALSE,
     popped |-> <<>>]

\* "for neighbor_node in self.graph.neighbors(node_idx)" of the inner loop
RECURSIVE VisitNeighbors(_, _)
VisitNeighbors(f, nids) ==
    IF Len(nids) = 0 THEN f
    ELSE LET nid == Head(nids)
         IN VisitNeighbors(
                IF nid \in f.obj_ids /\ nid \notin f.visited
                THEN [f EXCEPT !.visited = @ \cup {nid},
                               !.component = @ \cup {nid},
                               !.queue = Append(@, nid)]
                ELSE f,
                Tail(nids))

\* one pass of get_connected_components_within: a pass of the inner while
\* loop, the push of a finished component, or the next start_id
WithinPass(f) ==
    IF Len(f.queue) > 0
    THEN LET current_id == Head(f.queue)
         IN VisitNeighbors([f EXCEPT !.queue = Tail(@), !.popped = Append(@, current_id)],
                           GraphNeighborIds(f.o, current_id))
    ELSE IF f.running
    THEN [f EXCEPT !.components = Append(@, f.component), !.running = FALSE]
    ELSE LET start_id == Head(f.starts)
         IN IF start_id \in f.visited
            THEN [f EXCEPT !.starts = Tail(@)]
            ELSE [f EXCEPT !.starts = Tail(@),
                           !.component = {start_id},
                           !.queue = <<start_id>>,
                           !.visited = @ \cup {start_id},
                           !.running = TRUE]

\* get_connected_components_within returns
WithinDone(f) == Len(f.queue) = 0 /\ ~f.running /\ Len(f.starts) = 0

\* find_split_components leaves its while loop
SplitDone(f) == Len(f.st.queue) = 0

\* the calls of get_connected_components_within that insert of coords makes:
\* the store after insert_object and the update seeds, in an order the HashSet
\* can be iterated in
WithinCalls(coords) ==
    LET o1 == insert_object(Objects, coords)
        sep == separate_core_neighbors_by_novelty(o1, hash_coords(coords))
        update_seeds == get_update_seeds(o1, sep.new_cores)
    IN IF sep.new_cores = {} THEN {}
       ELSE {[o |-> o1, obj_ids |-> update_seeds, order |-> order] :
                order \in Perms(update_seeds)}

SearchUnchanged ==
    UNCHANGED <<graph, id_to_data, id_to_node, spatial, labels, min_pts, alloc_log,
                ret, ops, copies>>

\* delete of a live coordinate reaches find_split_components
BeginSplit(coords) ==
    /\ search.kind = "none"
    /\ hash_coords(coords) \in DOMAIN id_to_data
    /\ \E call \in SplitCalls(coords) : search' = SplitFrame(call)
    /\ SearchUnchanged

\* insert reaches get_connected_components_within
BeginWithin(coords) ==
    /\ search.kind = "none"
    /\ \E call \in WithinCalls(coords) : search' = WithinFrame(call)
    /\ SearchUnchanged

\* the while loop of find_split_components runs one pass
SplitStep ==
    /\ search.kind = "split"
    /\ ~SplitDone(search)
    /\ LET st2 == SplitPop(search.o, search.st)
       IN search' = [search EXCEPT
                        !.st = st2,
                        !.pushed = @ \o SubSeq(st2.queue, Len(search.st.queue),
                                               Len(st2.queue))]
    /\ SearchUnchanged

\* get_connected_components_within runs one pass
WithinStep ==
    /\ search.kind = "within"
    /\ ~WithinDone(search)
    /\ search' = WithinPass(search)
    /\ SearchUnchanged

InitSearch == IncrementalDbscan_new(1, 2, "1")

NextSearch ==
    \/ /\ search.kind = "none"
       /\ ops < MaxSearchOps
       /\ \E coords \in Square : Insert(coords) \/ Delete(coords)
    \/ \E coords \in Square : BeginSplit(coords)
    \/ \E coords \in Square : BeginWithin(coords)
    \/ SplitStep
    \/ WithinStep

\* a call that has entered a loop goes on running it: nothing else runs in
\* the engine and nothing can cancel the call
SpecSearch ==
    InitSearch /\ [][NextSearch]_vars /\ WF_vars(SplitStep) /\ WF_vars(WithinStep)

\* no value occurs twice in the sequence
NoRepeat(seq) == \A i, j \in 1..Len(seq) : i # j => seq[i] # seq[j]

\* C32: the split search of delete pushes each vertex at most once through a
\* tree edge, the component search of insert pops each seed at most once, and
\* each of the two searches, once entered, leaves its loops.
C32_SearchesTerminate ==
    /\ [](search.kind = "split" => NoRepeat(search.pushed))
    /\ [](search.kind = "within" =>
             /\ NoRepeat(search.popped)
             /\ SeqToSet(search.popped) \subseteq search.obj_ids)
    /\ (search.kind = "split") ~> (search.kind = "split" /\ SplitDone(search))
    /\ (search.kind = "within") ~> (search.kind = "within" /\ WithinDone(search))

\* a split search has left its loop after three seeds were queued, one of them
\* was pushed a second time through a tree edge, and it ends where the
\* traversal of the whole call ends
C32_Witness ==
    /\ search.kind = "split"
    /\ SplitDone(search)
    /\ Len(search.seed_ids) = 3
    /\ \E i \in 1..Len(search.pushed) :
           node_weight(search.o.graph, search.pushed[i]) \in SeqToSet(search.seed_ids)
    /\ search.st = SplitTraversal(search.o, search.seed_ids)

====
